---- MODULE Spec2Model ----
(***************************************************************************)
(* The MathTutor component (frontend/src/MathTutor.jsx): its six useState  *)
(* cells, the two async handlers fetchQuestion and submitAnswer, the       *)
(* requests they leave in flight, the 5-second feedback timer, and the     *)
(* useToast hook (appended to components/ui/card.tsx) whose list the       *)
(* handlers write to.                                                      *)
(*                                                                         *)
(* JavaScript values are encoded as follows.  null is the record Null.     *)
(* A string is a string, "" being the falsy one.  An identifier is a       *)
(* number, 0 being the falsy one (it also stands for a missing id).  A     *)
(* field that may or may not be an array is a record [isArray, items].     *)
(* is_correct is the text of a JavaScript literal: true, false, undefined  *)
(* or 1.                                                                   *)
(***************************************************************************)
EXTENDS Integers, Sequences, FiniteSets, TLC

VARIABLES topic, difficulty, question, selectedAnswer, feedback, loading,
          toasts, fetchInFlight, submitInFlight, delayTimers, event,
          otherToasts, superseded, timerFor, feedbackFor, questionStale

vars == <<topic, difficulty, question, selectedAnswer, feedback, loading,
          toasts, fetchInFlight, submitInFlight, delayTimers, event,
          otherToasts, superseded, timerFor, feedbackFor, questionStale>>

\* History kept beside the state, read by no handler and recorded only by
\* the specifications that say so:
\*   superseded[k]  a request issued after fetchInFlight[k] has been accepted
\*   timerFor[k]    the question_id of the submission delayTimers[k] answers
\*   feedbackFor    the question_id of the submission feedback answers, 0 for none
\*   questionStale  the question shown came from a superseded request
history == <<superseded, timerFor, feedbackFor, questionStale>>

controller == <<topic, difficulty, question, selectedAnswer, feedback, loading>>

network == <<fetchInFlight, submitInFlight, delayTimers>>

(***************************************************************************)
(* Bounds of the model.                                                    *)
(***************************************************************************)
\* callbacks pending at a time, at most: requests in flight, feedback timers
\* and toast timers
MaxPending == 2

\* toasts in the lists of the two hook calls at a time, at most, when the hook
\* is taken alone
MaxToasts == 3

(***************************************************************************)
(* Values.                                                                 *)
(***************************************************************************)
Null == [null |-> TRUE]

topics == <<"algebra", "geometry", "trigonometry", "calculus", "statistics">>

difficulties == <<"beginner", "intermediate", "advanced">>

\* the entries the user picks in the model: the handlers test topic and
\* difficulty for emptiness only, so one entry of each list stands for all
TopicChoices == {topics[1]}

DifficultyChoices == {difficulties[1]}

Array(items) == [isArray |-> TRUE, items |-> items]

NotAnArray == [isArray |-> FALSE, items |-> <<>>]

isArray(v) == v.isArray

typeof(lit) == IF lit \in {"true", "false"} THEN "boolean"
               ELSE IF lit = "undefined" THEN "undefined"
               ELSE "number"

\* bodies the /questions endpoint may answer with
QuestionData ==
    [id : {0, 1, 2},
     question_text : {"", "2+2=?"},
     options : {NotAnArray, Array(<<>>), Array(<<[text |-> "3"], [text |-> "4"]>>)}]

\* bodies the /submit endpoint may answer with
FeedbackData ==
    [is_correct : {"true", "false", "undefined", "1"},
     solution_steps : {NotAnArray, Array(<<"Add 2 and 2">>)}]

\* what a request settles with: fetch() rejects, or resolves with a status and a body
Rejected == [rejected |-> TRUE]

Statuses == {200, 500}

Responses(Data) == {Rejected} \cup [status : Statuses, data : Data]

\* the status test without its upper end
responseOk_openEnded(r) == r.status >= 200

responseOk(r) == r.status >= 200 /\ r.status <= 299

(***************************************************************************)
(* useToast.  toasts is the useState cell of the useToast() call in         *)
(* MathTutor, otherToasts the cell of a useToast() call made elsewhere.    *)
(* Math.random() ids are taken to differ from those still in the list.     *)
(***************************************************************************)
UsedToastIds == {toasts[i].id : i \in 1..Len(toasts)}

\* the identifiers a new toast may get: any one no entry of the list has
ToastIds == (1..MaxPending) \ UsedToastIds

toast_merge(id, title, description, variant) ==
    /\ toasts' = IF \E i \in 1..Len(toasts) :
                       /\ toasts[i].title = title
                       /\ toasts[i].description = description
                       /\ toasts[i].variant = variant
                  THEN toasts
                  ELSE Append(toasts, [id |-> id, title |-> title,
                                       description |-> description, variant |-> variant])

toast(id, title, description, variant) ==
    /\ toasts' = Append(toasts, [id |-> id, title |-> title,
                                 description |-> description, variant |-> variant])

RemoveAt(s, i) == SubSeq(s, 1, i - 1) \o SubSeq(s, i + 1, Len(s))

WithoutId(s, id) == SelectSeq(s, LAMBDA t : t.id # id)

\* the callback dropping the oldest entry instead of its own
toastTimer_oldest(id) ==
    /\ toasts' = Tail(toasts)
    /\ event' = "toastTimer"
    /\ UNCHANGED <<controller, network, otherToasts>>

\* the setTimeout callback of toast; the model lets pending callbacks run in
\* any order, the browser's order among them included
toastTimer(id) ==
    /\ toasts' = WithoutId(toasts, id)
    /\ event' = "toastTimer"
    /\ UNCHANGED <<controller, network, otherToasts>>

\* the same hook called a second time: its own cell, its own toast function
OtherUsedToastIds == {otherToasts[i].id : i \in 1..Len(otherToasts)}

otherToast(id, title, description, variant) ==
    /\ otherToasts' = Append(otherToasts, [id |-> id, title |-> title,
                                           description |-> description, variant |-> variant])

otherToastTimer(id) ==
    /\ otherToasts' = WithoutId(otherToasts, id)
    /\ event' = "otherToastTimer"
    /\ UNCHANGED <<controller, network, toasts>>

\* variant = "default" when the caller passes none
defaultVariant(v) == IF v = "undefined" THEN "default" ELSE v

\* what a caller may pass to toast
ToastArgs ==
    [title : {"Error", "Invalid Input"},
     description : {"Please select both topic and difficulty"},
     variant : {"undefined", "destructive"}]

handleError(id, customMessage) == toast(id, "Error", customMessage, "destructive")

(***************************************************************************)
(* What the rendered controls allow.                                       *)
(***************************************************************************)
GetQuestionEnabled == ~(topic = "" \/ difficulty = "" \/ loading)

SubmitAnswerEnabled == question # Null /\ ~(selectedAnswer = "" \/ loading)

TryAnotherEnabled == feedback # Null

OptionTexts == IF question = Null \/ ~isArray(question.options) THEN {}
               ELSE {question.options.items[i].text : i \in 1..Len(question.options.items)}

Outstanding == Len(fetchInFlight) + Len(submitInFlight) + Len(delayTimers)

Pending == Outstanding + Len(toasts) + Len(otherToasts)

(***************************************************************************)
(* The selects and the radio group.                                        *)
(***************************************************************************)
setTopic(t) ==
    /\ topic' = t
    /\ event' = "setTopic"
    /\ UNCHANGED <<difficulty, question, selectedAnswer, feedback, loading,
                   toasts, network, otherToasts>>

setDifficulty(d) ==
    /\ difficulty' = d
    /\ event' = "setDifficulty"
    /\ UNCHANGED <<topic, question, selectedAnswer, feedback, loading,
                   toasts, network, otherToasts>>

setSelectedAnswer(a) ==
    /\ a \in OptionTexts
    /\ selectedAnswer' = a
    /\ event' = "setSelectedAnswer"
    /\ UNCHANGED <<topic, difficulty, question, feedback, loading,
                   toasts, network, otherToasts>>

(***************************************************************************)
(* fetchQuestion.                                                          *)
(***************************************************************************)
\* the guard with && in place of ||
fetchMissingInput_both == topic = "" /\ difficulty = ""

fetchMissingInput == topic = "" \/ difficulty = ""

fetchInvalidInput(id) ==
    /\ Pending < MaxPending
    /\ toast(id, "Invalid Input", "Please select both topic and difficulty", "destructive")
    /\ event' = "fetchQuestion:invalid"
    /\ UNCHANGED <<controller, network, otherToasts>>

fetchRequest ==
    /\ Pending < MaxPending
    /\ loading' = TRUE
    /\ fetchInFlight' = Append(fetchInFlight, [topic |-> topic, difficulty |-> difficulty])
    /\ event' = "fetchQuestion:request"
    /\ UNCHANGED <<topic, difficulty, question, selectedAnswer, feedback,
                   toasts, submitInFlight, delayTimers, otherToasts>>

fetchQuestion ==
    IF fetchMissingInput
    THEN \E id \in ToastIds : fetchInvalidInput(id)
    ELSE fetchRequest

\* the check without its Array.isArray part
validQuestion_noOptions(data) ==
    ~(data.id = 0 \/ data.question_text = "")

\* the test with an empty options array refused as well
validQuestion_someOptions(data) ==
    ~(data.id = 0 \/ data.question_text = "" \/ ~isArray(data.options)
        \/ data.options.items = <<>>)

validQuestion(data) ==
    ~(data.id = 0 \/ data.question_text = "" \/ ~isArray(data.options))

\* no finally block
fetchFinally_skip == UNCHANGED loading

fetchFinally == loading' = FALSE

\* the success path without setSelectedAnswer("")
fetchAccept_keepAnswer(data) ==
    /\ question' = data
    /\ feedback' = Null
    /\ event' = "fetch:accepted"
    /\ UNCHANGED <<topic, difficulty, selectedAnswer, toasts>>

\* the success path with the selection cleared as well
fetchAccept_clearSelection(data) ==
    /\ question' = data
    /\ selectedAnswer' = ""
    /\ feedback' = Null
    /\ topic' = ""
    /\ difficulty' = ""
    /\ event' = "fetch:accepted"
    /\ UNCHANGED toasts

\* the success path without setFeedback(null)
fetchAccept_keepFeedback(data) ==
    /\ question' = data
    /\ selectedAnswer' = ""
    /\ event' = "fetch:accepted"
    /\ UNCHANGED <<topic, difficulty, feedback, toasts>>

fetchAccept(data) ==
    /\ question' = data
    /\ selectedAnswer' = ""
    /\ feedback' = Null
    /\ event' = "fetch:accepted"
    /\ UNCHANGED <<topic, difficulty, toasts>>

fetchCatch(id, kind) ==
    /\ handleError(id, "Failed to fetch question. Please try again.")
    /\ event' = kind
    /\ UNCHANGED <<topic, difficulty, question, selectedAnswer, feedback>>

\* the rest of fetchQuestion, run when request i settles with r
fetchSettled_retry(i, r) ==
    /\ fetchInFlight' = IF r = Rejected \/ ~responseOk(r)
                        THEN Append(RemoveAt(fetchInFlight, i), fetchInFlight[i])
                        ELSE RemoveAt(fetchInFlight, i)
    /\ IF r = Rejected THEN \E id \in ToastIds : fetchCatch(id, "fetch:failed")
       ELSE IF ~responseOk(r) THEN \E id \in ToastIds : fetchCatch(id, "fetch:failed")
       ELSE IF ~validQuestion(r.data) THEN \E id \in ToastIds : fetchCatch(id, "fetch:malformed")
       ELSE fetchAccept(r.data)
    /\ fetchFinally
    /\ UNCHANGED <<submitInFlight, delayTimers, otherToasts>>

\* an accepted question cancelling the pending feedback timers
fetchSettled_cancel(i, r) ==
    /\ fetchInFlight' = RemoveAt(fetchInFlight, i)
    /\ IF r = Rejected THEN \E id \in ToastIds : fetchCatch(id, "fetch:failed")
       ELSE IF ~responseOk(r) THEN \E id \in ToastIds : fetchCatch(id, "fetch:failed")
       ELSE IF ~validQuestion(r.data) THEN \E id \in ToastIds : fetchCatch(id, "fetch:malformed")
       ELSE fetchAccept(r.data)
    /\ fetchFinally
    /\ delayTimers' = IF r # Rejected /\ responseOk(r) /\ validQuestion(r.data)
                      THEN <<>> ELSE delayTimers
    /\ UNCHANGED <<submitInFlight, otherToasts>>

fetchSettled(i, r) ==
    /\ fetchInFlight' = RemoveAt(fetchInFlight, i)
    /\ IF r = Rejected THEN \E id \in ToastIds : fetchCatch(id, "fetch:failed")
       ELSE IF ~responseOk(r) THEN \E id \in ToastIds : fetchCatch(id, "fetch:failed")
       ELSE IF ~validQuestion(r.data) THEN \E id \in ToastIds : fetchCatch(id, "fetch:malformed")
       ELSE fetchAccept(r.data)
    /\ fetchFinally
    /\ UNCHANGED <<submitInFlight, delayTimers, otherToasts>>

(***************************************************************************)
(* submitAnswer.                                                           *)
(***************************************************************************)
questionId == IF question = Null THEN 0 ELSE question.id

\* the guard with && in place of ||
submitMissingInput_both == questionId = 0 /\ selectedAnswer = ""

submitMissingInput == questionId = 0 \/ selectedAnswer = ""

submitInvalid(id) ==
    /\ Pending < MaxPending
    /\ toast(id, "Invalid Submission", "Please select an answer before submitting", "destructive")
    /\ event' = "submitAnswer:invalid"
    /\ UNCHANGED <<controller, network, otherToasts>>

submitRequest ==
    /\ Pending < MaxPending
    /\ loading' = TRUE
    /\ submitInFlight' = Append(submitInFlight, [question_id |-> question.id,
                                                 selected_answer |-> selectedAnswer])
    /\ event' = "submitAnswer:request"
    /\ UNCHANGED <<topic, difficulty, question, selectedAnswer, feedback,
                   toasts, fetchInFlight, delayTimers, otherToasts>>

submitAnswer ==
    IF submitMissingInput
    THEN \E id \in ToastIds : submitInvalid(id)
    ELSE submitRequest

\* the check without its Array.isArray part
validFeedback_noSteps(data) ==
    ~(typeof(data.is_correct) # "boolean")

validFeedback(data) ==
    ~(typeof(data.is_correct) # "boolean" \/ ~isArray(data.solution_steps))

submitSchedule(data) ==
    /\ delayTimers' = Append(delayTimers, data)
    /\ event' = "submit:scheduled"
    /\ UNCHANGED <<loading, toasts>>

\* the catch block without setLoading(false)
submitCatch_keepLoading(id, kind) ==
    /\ handleError(id, "Failed to submit answer. Please try again.")
    /\ event' = kind
    /\ UNCHANGED <<loading, delayTimers>>

submitCatch(id, kind) ==
    /\ handleError(id, "Failed to submit answer. Please try again.")
    /\ loading' = FALSE
    /\ event' = kind
    /\ UNCHANGED delayTimers

\* the rest of submitAnswer, run when request i settles with r
submitSettled(i, r) ==
    /\ submitInFlight' = RemoveAt(submitInFlight, i)
    /\ IF r = Rejected THEN \E id \in ToastIds : submitCatch(id, "submit:failed")
       ELSE IF ~responseOk(r) THEN \E id \in ToastIds : submitCatch(id, "submit:failed")
       ELSE IF ~validFeedback(r.data) THEN \E id \in ToastIds : submitCatch(id, "submit:malformed")
       ELSE submitSchedule(r.data)
    /\ UNCHANGED <<topic, difficulty, question, selectedAnswer, feedback,
                   fetchInFlight, otherToasts>>

\* the setTimeout callback of submitAnswer
delayTimer(i) ==
    /\ feedback' = delayTimers[i]
    /\ loading' = FALSE
    /\ delayTimers' = RemoveAt(delayTimers, i)
    /\ event' = "delayTimer"
    /\ UNCHANGED <<topic, difficulty, question, selectedAnswer, toasts,
                   fetchInFlight, submitInFlight, otherToasts>>

(***************************************************************************)
(* The component.                                                          *)
(***************************************************************************)
Init ==
    /\ topic = ""
    /\ difficulty = ""
    /\ question = Null
    /\ selectedAnswer = ""
    /\ feedback = Null
    /\ loading = FALSE
    /\ toasts = <<>>
    /\ fetchInFlight = <<>>
    /\ submitInFlight = <<>>
    /\ delayTimers = <<>>
    /\ event = "mount"
    /\ otherToasts = <<>>
    /\ superseded = <<>>
    /\ timerFor = <<>>
    /\ feedbackFor = 0
    /\ questionStale = FALSE

SelectTopic == (\E t \in TopicChoices : setTopic(t)) /\ UNCHANGED history

SelectDifficulty == (\E d \in DifficultyChoices : setDifficulty(d)) /\ UNCHANGED history

SelectAnswer == (\E a \in OptionTexts : setSelectedAnswer(a)) /\ UNCHANGED history

FetchSettles ==
    /\ \E i \in 1..Len(fetchInFlight) : \E r \in Responses(QuestionData) : fetchSettled(i, r)
    /\ UNCHANGED history

SubmitSettles ==
    /\ \E i \in 1..Len(submitInFlight) : \E r \in Responses(FeedbackData) : submitSettled(i, r)
    /\ UNCHANGED history

DelayTimerFires == (\E i \in 1..Len(delayTimers) : delayTimer(i)) /\ UNCHANGED history

ToastTimerFires == (\E id \in UsedToastIds : toastTimer(id)) /\ UNCHANGED history

callFetchQuestion == fetchQuestion /\ UNCHANGED history

callSubmitAnswer == submitAnswer /\ UNCHANGED history

Next ==
    \/ SelectTopic
    \/ SelectDifficulty
    \/ SelectAnswer
    \/ callFetchQuestion
    \/ callSubmitAnswer
    \/ FetchSettles
    \/ SubmitSettles
    \/ DelayTimerFires
    \/ ToastTimerFires

Spec == Init /\ [][Next]_vars

(***************************************************************************)
(* The component driven only through the controls that are rendered and    *)
(* enabled.                                                                *)
(***************************************************************************)
clickGetQuestion == GetQuestionEnabled /\ fetchQuestion /\ UNCHANGED history

clickTryAnother == TryAnotherEnabled /\ fetchQuestion /\ UNCHANGED history

clickSubmitAnswer == SubmitAnswerEnabled /\ submitAnswer /\ UNCHANGED history

UINext ==
    \/ SelectTopic
    \/ SelectDifficulty
    \/ SelectAnswer
    \/ clickGetQuestion
    \/ clickTryAnother
    \/ clickSubmitAnswer
    \/ FetchSettles
    \/ SubmitSettles
    \/ DelayTimerFires
    \/ ToastTimerFires

UISpec == Init /\ [][UINext]_vars

(***************************************************************************)
(* Properties.                                                             *)
(***************************************************************************)
\* the toast list gained exactly one entry, at its end, with this title and text
Enqueued(title, description) ==
    /\ Len(toasts') = Len(toasts) + 1
    /\ SubSeq(toasts', 1, Len(toasts)) = toasts
    /\ toasts'[Len(toasts')].title = title
    /\ toasts'[Len(toasts')].description = description
    /\ toasts'[Len(toasts')].variant = "destructive"

\* C1: from the receipt of a valid feedback response to the firing of its
\* timer loading is true, and feedback is committed by that timer only.
C1_WithheldAndLoading ==
    /\ [](delayTimers # <<>> => loading)
    /\ [][feedback' # feedback /\ feedback' # Null => DelayTimerFires]_vars

\* C2: once a question request has settled, whatever its outcome, feedback
\* and the selected answer are none.
C2_SettledClears ==
    [][FetchSettles => feedback' = Null /\ selectedAnswer' = ""]_vars

\* what a request may settle with, by what the response is
Settled(r) == r # Rejected

Succeeded(r) == Settled(r) /\ r.status \in 200..299

Failed(r) == ~Succeeded(r)

WellFormedQuestion(data) ==
    data.id # 0 /\ data.question_text # "" /\ data.options.isArray

WellFormedFeedback(data) ==
    data.is_correct \in {"true", "false"} /\ data.solution_steps.isArray

\* C2 as amended: once a question request has settled with a valid payload,
\* feedback and the selected answer are none.  (Written effect first: a step
\* with the effect, or one that takes no request out of flight, needs no
\* search for the response that made it.)
C2_AcceptedClears ==
    [][\/ feedback' = Null /\ selectedAnswer' = ""
       \/ Len(fetchInFlight') >= Len(fetchInFlight)
       \/ ~(\E i \in 1..Len(fetchInFlight) : \E r \in Responses(QuestionData) :
              Succeeded(r) /\ WellFormedQuestion(r.data) /\ fetchSettled(i, r))]_vars

C2_Witness == event = "fetch:accepted" /\ feedback = Null /\ selectedAnswer = "" /\ ~loading

\* C3: driven through enabled controls only, at most one request or feedback
\* timer is outstanding.
C3_Serialized == Outstanding <= 1

\* C4: fetchQuestion called with topic or difficulty unset issues no request,
\* enqueues one validation notice and leaves question, selected answer,
\* feedback and loading as they were.
C4_InvalidInput ==
    [][(fetchQuestion /\ (topic = "" \/ difficulty = ""))
       => (/\ network' = network
           /\ Enqueued("Invalid Input", "Please select both topic and difficulty")
           /\ <<question, selectedAnswer, feedback, loading>>'
                = <<question, selectedAnswer, feedback, loading>>)]_vars

C4_Witness ==
    /\ event = "fetchQuestion:invalid"
    /\ topic # "" /\ difficulty = ""
    /\ toasts # <<>> /\ toasts[Len(toasts)].title = "Invalid Input"

\* C5: submitAnswer called with no question or no selected answer issues no
\* request, enqueues one validation notice and leaves question, selected
\* answer, feedback and loading as they were.
C5_InvalidSubmission ==
    [][(submitAnswer /\ (question = Null \/ selectedAnswer = ""))
       => (/\ network' = network
           /\ Enqueued("Invalid Submission", "Please select an answer before submitting")
           /\ <<question, selectedAnswer, feedback, loading>>'
                = <<question, selectedAnswer, feedback, loading>>)]_vars

C5_Witness ==
    /\ event = "submitAnswer:invalid"
    /\ question # Null /\ selectedAnswer = ""
    /\ toasts # <<>> /\ toasts[Len(toasts)].title = "Invalid Submission"

\* C6: a question response missing id or question_text, or whose options is
\* no array, is rejected with an error notice; question, selected answer and
\* feedback stay, and loading is false afterwards.
C6_MalformedQuestion ==
    [][\/ /\ <<question, selectedAnswer, feedback>>' = <<question, selectedAnswer, feedback>>
          /\ Enqueued("Error", "Failed to fetch question. Please try again.")
          /\ loading' = FALSE
       \/ Len(fetchInFlight') >= Len(fetchInFlight)
       \/ ~(\E i \in 1..Len(fetchInFlight) : \E r \in Responses(QuestionData) :
              Succeeded(r) /\ ~WellFormedQuestion(r.data) /\ fetchSettled(i, r))]_vars

C6_Witness ==
    /\ event = "fetch:malformed"
    /\ question # Null /\ selectedAnswer # "" /\ feedback # Null
    /\ ~loading
    /\ toasts # <<>> /\ toasts[Len(toasts)].title = "Error"

\* C7: a feedback response whose is_correct is no boolean or whose
\* solution_steps is no array is rejected with an error notice, schedules no
\* timer, sets loading false in that step, and is never the feedback state.
C7_MalformedFeedback ==
    /\ [][\/ /\ delayTimers' = delayTimers
             /\ feedback' = feedback
             /\ loading' = FALSE
             /\ Enqueued("Error", "Failed to submit answer. Please try again.")
          \/ Len(submitInFlight') >= Len(submitInFlight)
          \/ ~(\E i \in 1..Len(submitInFlight) : \E r \in Responses(FeedbackData) :
                 Succeeded(r) /\ ~WellFormedFeedback(r.data) /\ submitSettled(i, r))]_vars
    /\ [](/\ feedback # Null => WellFormedFeedback(feedback)
          /\ \A k \in 1..Len(delayTimers) : WellFormedFeedback(delayTimers[k]))

C7_Witness ==
    /\ event = "submit:malformed"
    /\ ~loading /\ delayTimers = <<>> /\ feedback = Null
    /\ toasts # <<>> /\ toasts[Len(toasts)].description = "Failed to submit answer. Please try again."

\* C8: a submit request that fails (fetch rejects, or a status outside 2xx)
\* commits no feedback, schedules no timer, enqueues one retry notice and
\* leaves loading false.
C8_SubmitFailure ==
    [][\/ /\ feedback' = feedback
          /\ delayTimers' = delayTimers
          /\ Enqueued("Error", "Failed to submit answer. Please try again.")
          /\ loading' = FALSE
       \/ Len(submitInFlight') >= Len(submitInFlight)
       \/ ~(\E i \in 1..Len(submitInFlight) : \E r \in Responses(FeedbackData) :
              Failed(r) /\ submitSettled(i, r))]_vars

C8_Witness ==
    /\ event = "submit:failed"
    /\ ~loading /\ feedback = Null /\ delayTimers = <<>> /\ submitInFlight = <<>>
    /\ Len(toasts) = 1 /\ toasts[1].description = "Failed to submit answer. Please try again."

\* C9: a question request that fails (fetch rejects, or a status outside 2xx)
\* enqueues one retry notice and leaves question, selected answer and
\* feedback as they were.
C9_FetchFailure ==
    [][\/ /\ <<question, selectedAnswer, feedback>>' = <<question, selectedAnswer, feedback>>
          /\ Enqueued("Error", "Failed to fetch question. Please try again.")
       \/ Len(fetchInFlight') >= Len(fetchInFlight)
       \/ ~(\E i \in 1..Len(fetchInFlight) : \E r \in Responses(QuestionData) :
              Failed(r) /\ fetchSettled(i, r))]_vars

C9_Witness ==
    /\ event = "fetch:failed"
    /\ question # Null /\ selectedAnswer # "" /\ feedback # Null
    /\ Len(toasts) = 1 /\ toasts[1].description = "Failed to fetch question. Please try again."

(***************************************************************************)
(* Every request in flight settles and every feedback timer fires.         *)
(***************************************************************************)
FairSpec ==
    /\ Spec
    /\ WF_vars(FetchSettles)
    /\ WF_vars(SubmitSettles)
    /\ WF_vars(DelayTimerFires)

\* C10: when requests settle and timers fire, loading = true is always
\* followed by loading = false.
C10_LoadingReleased == loading ~> ~loading

C10_Witness ==
    /\ event \in {"fetch:failed", "fetch:malformed", "submit:failed", "submit:malformed"}
    /\ ~loading /\ Outstanding = 0

(***************************************************************************)
(* Every toast timer fires.                                                *)
(***************************************************************************)
ToastFairSpec ==
    /\ Spec
    /\ \A id \in 1..MaxPending :
         WF_vars(id \in UsedToastIds /\ toastTimer(id) /\ UNCHANGED history)

\* C11: every toast enqueued is removed, by its own timer: the list loses
\* entries in timer steps only, a timer step removes the one entry carrying
\* its id and keeps the others, and topic, difficulty, question, selected
\* answer, feedback and loading stay as they were.
C11_OwnTimerRemoves ==
    /\ [][Len(toasts') < Len(toasts) => event' = "toastTimer"]_vars
    /\ [][\A id \in UsedToastIds :
            toastTimer(id) =>
              /\ \E i \in 1..Len(toasts) : toasts[i].id = id /\ toasts' = RemoveAt(toasts, i)
              /\ controller' = controller]_vars
    /\ \A id \in 1..MaxPending : (id \in UsedToastIds) ~> (id \notin UsedToastIds)

C11_Witness ==
    /\ event = "toastTimer"
    /\ Len(toasts) = 1 /\ toasts[1].title = "Error"
    /\ question # Null /\ selectedAnswer # "" /\ feedback # Null

(***************************************************************************)
(* The hook alone, called from two places.                                 *)
(***************************************************************************)
ToastCalled ==
    /\ Len(toasts) + Len(otherToasts) < MaxToasts
    /\ \E a \in ToastArgs : \E id \in (1..MaxToasts) \ UsedToastIds :
         toast(id, a.title, a.description, defaultVariant(a.variant))
    /\ event' = "toast"
    /\ UNCHANGED <<controller, network, otherToasts, history>>

OtherToastCalled ==
    /\ Len(toasts) + Len(otherToasts) < MaxToasts
    /\ \E a \in ToastArgs : \E id \in (1..MaxToasts) \ OtherUsedToastIds :
         otherToast(id, a.title, a.description, defaultVariant(a.variant))
    /\ event' = "otherToast"
    /\ UNCHANGED <<controller, network, toasts, history>>

OtherToastTimerFires ==
    (\E id \in OtherUsedToastIds : otherToastTimer(id)) /\ UNCHANGED history

ToastNext ==
    \/ ToastCalled
    \/ OtherToastCalled
    \/ ToastTimerFires
    \/ OtherToastTimerFires

ToastSpec == Init /\ [][ToastNext]_vars

\* C12: the notifier is one queue: an entry enqueued through one useToast()
\* call's toast is in the list of every other useToast() call for as long
\* as it is in its own.
C12_OneQueue ==
    /\ \A k \in 1..Len(toasts) : \E j \in 1..Len(otherToasts) : otherToasts[j] = toasts[k]
    /\ \A k \in 1..Len(otherToasts) : \E j \in 1..Len(toasts) : toasts[j] = otherToasts[k]

\* C13: the toast list is the not-yet-removed toasts in enqueue order: a
\* toast call appends exactly one entry at the end and keeps every entry
\* already there, equal content or not; any other change of the list is
\* the removal of one entry, the rest staying in order.
C13_EnqueueOrder ==
    /\ [][event' = "toast" =>
            /\ Len(toasts') = Len(toasts) + 1
            /\ SubSeq(toasts', 1, Len(toasts)) = toasts]_vars
    /\ [][event' # "toast" =>
            \/ toasts' = toasts
            \/ \E i \in 1..Len(toasts) : toasts' = RemoveAt(toasts, i)]_vars

SameNotice(a, b) ==
    /\ a.title = b.title
    /\ a.description = b.description
    /\ a.variant = b.variant

C13_Witness ==
    /\ event = "toastTimer"
    /\ Len(toasts) = 2
    /\ SameNotice(toasts[1], toasts[2])
    /\ toasts[1].id > toasts[2].id

InFlight == Len(fetchInFlight) + Len(submitInFlight)

\* C14: no error is retried: a request is issued only by an invocation of
\* fetchQuestion or submitAnswer that passed its guard, one request per
\* invocation; no other step, a failed or malformed response included,
\* issues a request, and each settled response retires exactly its own.
C14_NoRetry ==
    /\ [][event' = "fetchQuestion:request" =>
            /\ topic # "" /\ difficulty # ""
            /\ fetchInFlight' = Append(fetchInFlight,
                                       [topic |-> topic, difficulty |-> difficulty])
            /\ submitInFlight' = submitInFlight]_vars
    /\ [][event' = "submitAnswer:request" =>
            /\ question # Null /\ question.id # 0 /\ selectedAnswer # ""
            /\ submitInFlight' = Append(submitInFlight,
                                        [question_id |-> question.id,
                                         selected_answer |-> selectedAnswer])
            /\ fetchInFlight' = fetchInFlight]_vars
    /\ [][event' \in {"fetch:failed", "fetch:malformed", "fetch:accepted"} =>
            /\ \E i \in 1..Len(fetchInFlight) : fetchInFlight' = RemoveAt(fetchInFlight, i)
            /\ submitInFlight' = submitInFlight]_vars
    /\ [][event' \in {"submit:failed", "submit:malformed", "submit:scheduled"} =>
            /\ \E i \in 1..Len(submitInFlight) : submitInFlight' = RemoveAt(submitInFlight, i)
            /\ fetchInFlight' = fetchInFlight]_vars
    /\ [][event' \in {"fetchQuestion:invalid", "submitAnswer:invalid", "setTopic",
                      "setDifficulty", "setSelectedAnswer", "delayTimer", "toastTimer"} =>
            /\ fetchInFlight' = fetchInFlight
            /\ submitInFlight' = submitInFlight]_vars

\* a fetch has failed and a submit has failed, nothing is in flight, and the
\* controls are released
C14_Witness ==
    /\ event = "submit:failed"
    /\ InFlight = 0
    /\ ~loading
    /\ Len(toasts) = 2
    /\ toasts[1].description = "Failed to fetch question. Please try again."

\* C15: topic and difficulty change only by the user's select actions:
\* setTopic changes the topic alone, setDifficulty the difficulty alone,
\* and every other step (a request, any response outcome, the feedback
\* timer, a toast enqueued or removed) leaves both as they were.
C15_SelectionPersists ==
    /\ [][topic' # topic => event' = "setTopic" /\ difficulty' = difficulty]_vars
    /\ [][difficulty' # difficulty => event' = "setDifficulty" /\ topic' = topic]_vars
    /\ [][event' \notin {"setTopic", "setDifficulty"} =>
            topic' = topic /\ difficulty' = difficulty]_vars

\* a request has failed, a later one has brought a question, and the
\* selection is still the one the user made
C15_Witness ==
    /\ event = "fetch:accepted"
    /\ question # Null /\ question.id = 2
    /\ Len(toasts) = 1 /\ toasts[1].title = "Error"
    /\ topic = topics[1] /\ difficulty = difficulties[1]

WellFormedResponses ==
    {r \in Responses(QuestionData) : Succeeded(r) /\ WellFormedQuestion(r.data)}

\* C16: a successful question response becomes the question exactly when
\* it has a non-empty id, a non-empty question_text and an array as
\* options, an empty array included; a successful response failing one of
\* the three is handled as malformed and the question stays as it was.
C16_AcceptedIffWellFormed ==
    /\ [][\/ Len(fetchInFlight') >= Len(fetchInFlight)
          \/ /\ event' = "fetch:accepted"
             /\ question' # Null /\ WellFormedQuestion(question')
             /\ \A i \in 1..Len(fetchInFlight) : \A r \in WellFormedResponses :
                  fetchSettled(i, r) => question' = r.data
          \/ /\ event' \in {"fetch:malformed", "fetch:failed"}
             /\ question' = question
             /\ ~(\E i \in 1..Len(fetchInFlight) : \E r \in WellFormedResponses :
                    fetchSettled(i, r))]_vars

\* a question without options has been accepted
C16_Witness ==
    /\ event = "fetch:accepted"
    /\ question # Null
    /\ question.options = Array(<<>>)
    /\ ~loading /\ toasts = <<>>

\* C17: the selected answer is always none or the text of an option of the
\* current question, and a submit request carries the id of the question
\* displayed when it is issued together with that option text.
C17_AnswerOfCurrentQuestion ==
    /\ [](selectedAnswer = "" \/ selectedAnswer \in OptionTexts)
    /\ [][event' = "submitAnswer:request" =>
            /\ Len(submitInFlight') = Len(submitInFlight) + 1
            /\ submitInFlight'[Len(submitInFlight')].question_id = question.id
            /\ submitInFlight'[Len(submitInFlight')].selected_answer \in OptionTexts
            /\ question' = question]_vars

\* the chosen option of the displayed question is on its way to /submit
C17_Witness ==
    /\ event = "submitAnswer:request"
    /\ question # Null /\ question.id = 2
    /\ selectedAnswer = "4"
    /\ submitInFlight = <<[question_id |-> 2, selected_answer |-> "4"]>>

\* C18: the feedback delay cannot be cancelled: a pending delay timer
\* leaves the pending set only by firing, whatever steps come in between
\* (a replaced question included); when it fires, its payload becomes the
\* feedback and loading becomes false; and a pending timer is always
\* followed by feedback being present.
C18_NoCancellation ==
    /\ [][event' # "delayTimer" =>
            \/ delayTimers' = delayTimers
            \/ /\ event' = "submit:scheduled"
               /\ Len(delayTimers') = Len(delayTimers) + 1
               /\ SubSeq(delayTimers', 1, Len(delayTimers)) = delayTimers]_vars
    /\ [][event' = "delayTimer" =>
            \E i \in 1..Len(delayTimers) :
              /\ delayTimers' = RemoveAt(delayTimers, i)
              /\ feedback' = delayTimers[i]
              /\ loading' = FALSE]_vars
    /\ (delayTimers # <<>>) ~> (feedback # Null)

\* feedback has been committed after the question it answers was replaced
C18_Witness ==
    /\ event = "delayTimer"
    /\ feedback # Null /\ feedback.is_correct = "true"
    /\ question # Null /\ selectedAnswer = ""
    /\ ~loading

(***************************************************************************)
(* The component driven through its enabled controls, with a record of     *)
(* which request each pending continuation belongs to: superseded[k] says  *)
(* that a question request issued after request k has been accepted,       *)
(* timerFor[k] is the question_id of the submission that scheduled timer   *)
(* k, feedbackFor is the question_id of the submission whose feedback is   *)
(* shown, questionStale says that the question shown came from a request   *)
(* issued before one already accepted.                                     *)
(***************************************************************************)
notedFetchQuestion ==
    /\ fetchQuestion
    /\ superseded' = IF event' = "fetchQuestion:request"
                     THEN Append(superseded, FALSE) ELSE superseded
    /\ UNCHANGED <<timerFor, feedbackFor, questionStale>>

notedFetchSettled(i, r) ==
    /\ fetchSettled(i, r)
    /\ LET accepted == event' = "fetch:accepted" IN
         /\ superseded' = RemoveAt([k \in 1..Len(superseded) |->
                                      superseded[k] \/ (accepted /\ k < i)], i)
         /\ questionStale' = IF accepted THEN superseded[i] ELSE questionStale
         /\ feedbackFor' = IF accepted THEN 0 ELSE feedbackFor
    /\ UNCHANGED timerFor

notedSubmitSettled(i, r) ==
    /\ submitSettled(i, r)
    /\ timerFor' = IF event' = "submit:scheduled"
                   THEN Append(timerFor, submitInFlight[i].question_id) ELSE timerFor
    /\ UNCHANGED <<superseded, feedbackFor, questionStale>>

notedDelayTimer(i) ==
    /\ delayTimer(i)
    /\ feedbackFor' = timerFor[i]
    /\ timerFor' = RemoveAt(timerFor, i)
    /\ UNCHANGED <<superseded, questionStale>>

NotedGetQuestion == GetQuestionEnabled /\ notedFetchQuestion

NotedTryAnother == TryAnotherEnabled /\ notedFetchQuestion

NotedFetchSettles ==
    \E i \in 1..Len(fetchInFlight) : \E r \in Responses(QuestionData) : notedFetchSettled(i, r)

NotedSubmitSettles ==
    \E i \in 1..Len(submitInFlight) : \E r \in Responses(FeedbackData) : notedSubmitSettled(i, r)

NotedDelayTimerFires == \E i \in 1..Len(delayTimers) : notedDelayTimer(i)

UIHistoryNext ==
    \/ SelectTopic
    \/ SelectDifficulty
    \/ SelectAnswer
    \/ NotedGetQuestion
    \/ NotedTryAnother
    \/ clickSubmitAnswer
    \/ NotedFetchSettles
    \/ NotedSubmitSettles
    \/ NotedDelayTimerFires
    \/ ToastTimerFires

UIHistorySpec == Init /\ [][UIHistoryNext]_vars

\* C19: whenever feedback is present, it grades a submission made for the
\* question displayed: the question_id sent with that submission is the id
\* of the current question.
C19_FeedbackOfCurrentQuestion ==
    feedback # Null => question # Null /\ feedbackFor = question.id

\* C20: once every question request has settled, the question displayed is
\* the response to the most recently issued request among those accepted.
C20_LatestIssuedWins ==
    fetchInFlight = <<>> => ~questionStale

====
